---- MODULE Spec2Model ----
(***************************************************************************)
(* docker-supervise (supervise.go): a registry of the launch              *)
(* configurations of named containers, an HTTP surface that registers and *)
(* unregisters names, and the monitorEvents loop that recreates a         *)
(* supervised container when the engine reports that it died.             *)
(*                                                                         *)
(* The container engine is the environment: it sends any event at any     *)
(* time and answers every call with an error or with any answer its       *)
(* interface allows.  The state is the state of the process: the          *)
(* registry, the event channel, the position and locals of monitorEvents  *)
(* and of every running request handler.                                  *)
(*                                                                         *)
(* A step of monitorEvents or of a handler runs from the return of one   *)
(* engine call to the next engine call: the engine's answers do not       *)
(* depend on the state of the process, so the Registry accesses between   *)
(* two engine calls happen with the return of the first one.              *)
(*                                                                         *)
(* Strings that the code slices or trims (container names, request        *)
(* identifiers, URL paths) are sequences of one-character strings, so     *)
(* that strings.Trim and Name[1:] are computed and not assumed.           *)
(***************************************************************************)
EXTENDS Integers, Sequences, FiniteSets, TLC

\* ------------------------------------------------------------------ bounds
\* events waiting on the listener channel at one time
MaxFeed == 1
\* request handlers that can run at the same time
NumHandlers == 2
\* events waiting on the listener channel when the engine sends a burst
MaxBacklog == 2

\* ------------------------------------------------------------- vocabulary
Slash == "/"
\* names the engine reports for containers: "/a", "/b"
EngineNames == {<<Slash, "a">>, <<Slash, "b">>}
\* container ids the engine uses
IdStrs == {<<"1">>, <<"2">>}
\* launch configuration documents (container.Config), opaque
Docs == {"d1", "d2"}
\* host configurations (container.HostConfig), opaque
HostConfigs == {"h1", "h2"}
Statuses == {"die", "start"}
Events == [ID : IdStrs, Status : Statuses]
Handlers == 1..NumHandlers

NoDoc == "none"
NoHostConfig == "none"
NoEvent == [ID |-> <<>>, Status |-> ""]
NoInspect == [ID |-> <<>>, Name |-> <<>>, Config |-> NoDoc, HostConfig |-> NoHostConfig]
NoReq == [method |-> "", path |-> <<>>, name |-> <<>>]
NoResp == [code |-> 0, body |-> {}]

VARIABLES
    \* process
    proc,        \* position of main: connect, load, subscribe, run, fatal
    fatalBy,     \* which log.Fatal ended the process ("" while it lives)
    \* ConfigStore and its Persister
    confStore,   \* the in-memory mapping name -> document
    persister,   \* TRUE iff the store was given a DirectoryPersister
    disk,        \* the durable records name -> document
    dirExists,   \* TRUE iff the persist directory exists
    lastOp,      \* history: per name, the document of its latest add, or "removed"
    persistLog,  \* the persistence failure the latest store operation logged
    \* the listener channel
    feed,        \* events sent by the engine, not yet received
    feedClosed,  \* the channel was closed
    \* monitorEvents
    supPc,       \* recv, or the engine call it is blocked in: inspect, remove, create, start
    event,       \* the event being processed
    container,   \* result of InspectContainer(event.ID)
    conf,        \* result of confStore.Get(name)
    newContainer,\* id returned by CreateContainer
    calls,       \* engine calls and Registry lookups made so far for `event`
    outcome,     \* how the last finished iteration ended ("" while one runs)
    \* HTTP handlers
    hPc,         \* per handler: idle, list, inspect (blocked in InspectContainer), remove
    hArg,        \* per handler: the trimmed identifier or path
    hReq,        \* history: the request a watched handler serves or served last
    hResp,       \* history: the response a watched handler wrote to that request
    hSnap        \* per handler: the copy confStore.Copy() returned to it

procVars == <<proc, fatalBy>>
storeVars == <<confStore, persister, disk, dirExists, lastOp, persistLog>>
feedVars == <<feed, feedClosed>>
supVars == <<supPc, event, container, conf, newContainer, calls, outcome>>
httpVars == <<hPc, hArg, hReq, hResp, hSnap>>
vars == <<procVars, storeVars, feedVars, supVars, httpVars>>

\* ---------------------------------------------------------------- strings
RECURSIVE TrimLeft(_, _)
TrimLeft(s, c) == IF s # <<>> /\ Head(s) = c THEN TrimLeft(Tail(s), c) ELSE s

RECURSIVE TrimRight(_, _)
TrimRight(s, c) ==
    IF s # <<>> /\ s[Len(s)] = c THEN TrimRight(SubSeq(s, 1, Len(s) - 1), c) ELSE s

\* strings.Trim(s, c)
Trim(s, c) == TrimRight(TrimLeft(s, c), c)

\* s[1:]
SliceFrom1(s) == Tail(s)

\* ------------------------------------------------------------ maps (Go map)
EmptyMap == [k \in {} |-> NoDoc]
\* (mutant) an entry that exists is kept
MapPutIfAbsent(m, k, d) == [x \in DOMAIN m \cup {k} |-> IF x \in DOMAIN m THEN m[x] ELSE d]

MapPut(m, k, d) == [x \in DOMAIN m \cup {k} |-> IF x = k THEN d ELSE m[x]]
MapDel(m, k) == [x \in DOMAIN m \ {k} |-> m[x]]

\* what the persist directory can hold when the process starts
Keys == {Trim(n, Slash) : n \in EngineNames}
InitDisks == UNION {[S -> Docs] : S \in SUBSET Keys}

\* ------------------------------------------------------------ ConfigStore
\* the history of the mutations asked of the store: add(name, d), remove(name)
NotedAdd(log, name, d) == [x \in DOMAIN log \cup {name} |-> IF x = name THEN d ELSE log[x]]
Removed == "removed"
NotedRemove(log, name) ==
    [x \in DOMAIN log \cup {name} |-> IF x = name THEN Removed ELSE log[x]]

\* what the store logs when its persister fails
NoWarning == <<>>
Warning(what, name, failed) == IF failed THEN <<what, name>> ELSE NoWarning

\* confStore.Get(name) -> (conf, ok)
StoreGet(name) ==
    IF name \in DOMAIN confStore
    THEN [conf |-> confStore[name], ok |-> TRUE]
    ELSE [conf |-> NoDoc, ok |-> FALSE]

\* confStore.Add(name, conf): upsert in memory, then best-effort save
StoreAdd(name, d, saveOk) ==
    /\ confStore' = MapPut(confStore, name, d)
    /\ disk' = IF persister /\ saveOk THEN MapPut(disk, name, d) ELSE disk
    /\ lastOp' = NotedAdd(lastOp, name, d)
    /\ persistLog' = Warning("save", name, persister /\ ~saveOk)
    /\ UNCHANGED <<persister, dirExists>>

\* confStore.Remove(name): delete in memory, then best-effort delete
StoreRemove(name, delOk) ==
    /\ confStore' = MapDel(confStore, name)
    /\ disk' = IF persister /\ delOk THEN MapDel(disk, name) ELSE disk
    /\ lastOp' = NotedRemove(lastOp, name)
    /\ persistLog' = Warning("delete", name, persister /\ ~delOk)
    /\ UNCHANGED <<persister, dirExists>>

\* confStore.Copy(): a copy of the mapping, taken at once
StoreCopy == confStore

\* NewConfigStore(p); confStore.Load(): the mapping becomes what the backend
\* holds, every loaded name counts as added
StoreLoad(p, loadOk) ==
    /\ persister' = p
    /\ confStore' = IF p /\ loadOk THEN disk ELSE EmptyMap
    /\ lastOp' = IF p /\ loadOk THEN disk ELSE EmptyMap
    /\ persistLog' = Warning("load", <<>>, p /\ ~loadOk)
    /\ UNCHANGED <<disk, dirExists>>

\* ----------------------------------------------------------------- engine
\* the names InspectContainer(x) can report: x is a name, or an id of any container
InspectNames(x) ==
    IF <<Slash>> \o x \in EngineNames THEN {<<Slash>> \o x}
    ELSE IF x \in IdStrs THEN EngineNames
    ELSE {}

\* the answers InspectContainer(x) can give when it succeeds
InspectAnswers(x) ==
    {[ID |-> IF x \in IdStrs THEN x ELSE i, Name |-> n, Config |-> d, HostConfig |-> h] :
        i \in IdStrs, n \in InspectNames(x), d \in Docs, h \in HostConfigs}

FeedOpen == proc = "run" /\ ~feedClosed
InFeed(e) == \E k \in 1..Len(feed) : feed[k] = e

\* the engine sends a lifecycle event to the listener
EngEvent(e) ==
    /\ FeedOpen
    /\ Len(feed) < MaxFeed
    /\ ~InFeed(e)
    /\ feed' = Append(feed, e)
    /\ UNCHANGED <<feedClosed, procVars, storeVars, supVars, httpVars>>

\* the engine sends an event while events sent before it are still waiting
EngBacklog(e) ==
    /\ FeedOpen
    /\ MaxFeed <= Len(feed) /\ Len(feed) < MaxBacklog
    /\ ~InFeed(e)
    /\ feed' = Append(feed, e)
    /\ UNCHANGED <<feedClosed, procVars, storeVars, supVars, httpVars>>

\* the event stream ends and the listener channel is closed
FeedClose ==
    /\ FeedOpen
    /\ feedClosed' = TRUE
    /\ UNCHANGED <<feed, procVars, storeVars, supVars, httpVars>>

\* ------------------------------------------------------------------- main
\* log.Fatal: os.Exit(1); the memory of the process (the mapping, the channel,
\* every goroutine's locals) is gone, the disk stays
Exit(by) ==
    /\ proc' = "fatal" /\ fatalBy' = by
    /\ confStore' = EmptyMap /\ lastOp' = EmptyMap /\ persistLog' = NoWarning
    /\ feed' = <<>>
    /\ supPc' = "recv" /\ event' = NoEvent /\ container' = NoInspect
    /\ conf' = NoDoc /\ newContainer' = <<>> /\ calls' = <<>> /\ outcome' = ""
    /\ hPc' = [h \in Handlers |-> "idle"]
    /\ hArg' = [h \in Handlers |-> <<>>]
    /\ hReq' = [h \in Handlers |-> NoReq]
    /\ hResp' = [h \in Handlers |-> NoResp]
    /\ hSnap' = [h \in Handlers |-> EmptyMap]
    /\ UNCHANGED <<persister, disk, dirExists, feedClosed>>

\* docker.NewClient(endpoint)
MainConnect ==
    /\ proc = "connect"
    /\ \E ok \in BOOLEAN :
         IF ok
         THEN /\ proc' = "load"
              /\ UNCHANGED <<fatalBy, storeVars, feedVars, supVars, httpVars>>
         ELSE Exit("connect")

\* (mutant) a DirectoryPersister is made whether the directory exists or not
UsePersisterAlways(exists) == TRUE

\* if _, err := os.Stat(persistDir); err == nil { persister = DirectoryPersister }
UsePersister(exists) == exists

\* (mutant) a failed Load ends the process
MainLoadOrDie ==
    /\ proc = "load"
    /\ \E ok \in BOOLEAN :
         IF ok \/ ~UsePersister(dirExists)
         THEN /\ StoreLoad(UsePersister(dirExists), ok)
              /\ proc' = "subscribe"
              /\ UNCHANGED <<fatalBy, feedVars, supVars, httpVars>>
         ELSE Exit("load")

\* NewConfigStore(persister); confStore.Load(), a failure is only warned of
MainLoad ==
    /\ proc = "load"
    /\ \E ok \in BOOLEAN : StoreLoad(UsePersister(dirExists), ok)
    /\ proc' = "subscribe"
    /\ UNCHANGED <<fatalBy, feedVars, supVars, httpVars>>

\* client.AddEventListener(events); go monitorEvents(events); ListenAndServe
MainSubscribe ==
    /\ proc = "subscribe"
    /\ \E ok \in BOOLEAN :
         IF ok
         THEN /\ proc' = "run"
              /\ UNCHANGED <<fatalBy, storeVars, feedVars, supVars, httpVars>>
         ELSE Exit("subscribe")

\* http.ListenAndServe returns (it only returns an error): log.Fatal
MainServeFails ==
    /\ proc = "run"
    /\ Exit("http")

Main == MainConnect \/ MainLoad \/ MainSubscribe \/ MainServeFails

\* ----------------------------------------------------------- monitorEvents
\* one entry of the log of what monitorEvents did for the current event:
\* the operation, its arguments, its result (pending, ok, err) and its answer
Call(op, a, b, res, ret) == [op |-> op, a |-> a, b |-> b, res |-> res, ret |-> ret]

\* the log with the pending call answered
Answered(log, res, ret) ==
    [log EXCEPT ![Len(log)].res = res, ![Len(log)].ret = ret]

\* (mutant) the status of the event is not looked at
IsAnyEvent(ev) == TRUE

\* if event.Status == "die"
IsDie(ev) == ev.Status = "die"

\* (mutant) the name is looked up as the engine reports it
SupNameWhole(c) == c.Name

\* name := container.Name[1:]
SupName(c) == SliceFrom1(c.Name)

\* hostConfig := container.HostConfig
SupHostConfig(c) == c.HostConfig

\* client.InspectContainer(event.ID)
InspectArg(ev) == ev.ID

\* docker.RemoveContainerOptions{ID: container.ID}
RemoveOptions(c) == [ID |-> c.ID]

\* (mutant) the new container gets the dead instance's own Config
CreateOptionsFromInspect(c, cf) == [Name |-> SupName(c), Config |-> c.Config]

\* docker.CreateContainerOptions{Name: name, Config: conf}
CreateOptions(c, cf) == [Name |-> SupName(c), Config |-> cf]

\* (mutant) the dead instance is started instead of the new one
StartArgsDeadId(nc, c) == [ID |-> c.ID, HostConfig |-> SupHostConfig(c)]

\* the arguments of client.StartContainer(newContainer.ID, hostConfig)
StartArgs(nc, c) == [ID |-> nc, HostConfig |-> SupHostConfig(c)]

\* (mutant) the `continue` after a failed InspectContainer is missing
InspectErrIgnored == FALSE

\* InspectContainer failed: log and `continue`
InspectErrContinues == TRUE

\* (mutant) the `continue` after a missed lookup is missing
GetMissIgnored == FALSE

\* confStore.Get missed: `continue`
GetMissContinues == TRUE

\* RemoveContainer failed: log only, there is no `continue`
RemoveErrContinues == FALSE

\* (mutant) the `continue` after a failed CreateContainer is missing
CreateErrIgnored == FALSE

\* CreateContainer failed: log and `continue`
CreateErrContinues == TRUE

\* the iteration ends (`continue`, or the end of the loop body): its locals
\* go out of scope; the log and the event stay until the next event is received
SupEnds(how, log) ==
    /\ supPc' = "recv"
    /\ container' = NoInspect /\ conf' = NoDoc /\ newContainer' = <<>>
    /\ calls' = log
    /\ outcome' = how
    /\ UNCHANGED event

\* the iteration blocks in the engine call `call`
SupCalls(pc, c, cf, nc, log, call) ==
    /\ supPc' = pc
    /\ container' = c /\ conf' = cf /\ newContainer' = nc
    /\ calls' = Append(log, call)
    /\ outcome' = ""
    /\ UNCHANGED event

\* client.RemoveContainer(...) is called
SupCallsRemove(c, cf, log) ==
    SupCalls("remove", c, cf, <<>>, log,
             Call("remove", RemoveOptions(c).ID, "", "pending", ""))

\* client.CreateContainer(...) is called
SupCallsCreate(c, cf, log) ==
    LET o == CreateOptions(c, cf) IN
    SupCalls("create", c, cf, <<>>, log,
             Call("create", o.Name, o.Config, "pending", ""))

\* client.StartContainer(...) is called
SupCallsStart(c, cf, nc, log) ==
    LET a == StartArgs(nc, c) IN
    SupCalls("start", c, cf, nc, log,
             Call("start", a.ID, a.HostConfig, "pending", ""))

\* (mutant) the event sent last is received first
ReceiveNewest(q) == [event |-> q[Len(q)], rest |-> SubSeq(q, 1, Len(q) - 1)]

\* a receive from the channel c: the event sent first, and what stays on c
Receive(q) == [event |-> Head(q), rest |-> Tail(q)]

\* (mutant) a restart budget of one: after a recreation nothing is received
AtRangeOnce == supPc = "recv" /\ outcome # "recreated"

\* monitorEvents is at `range c`: nothing but the loop position decides
\* whether the next event is taken
AtRange == supPc = "recv"

\* for event := range c { if event.Status == "die" { client.InspectContainer(
SupRecv ==
    /\ proc = "run" /\ AtRange
    /\ feed # <<>>
    /\ event' = Receive(feed).event
    /\ feed' = Receive(feed).rest
    /\ IF IsDie(Receive(feed).event)
       THEN /\ supPc' = "inspect"
            /\ calls' = <<Call("inspect", InspectArg(Receive(feed).event), "", "pending", "")>>
            /\ outcome' = ""
       ELSE /\ supPc' = "recv"
            /\ calls' = <<>>
            /\ outcome' = "ignored"
    /\ UNCHANGED <<container, conf, newContainer>>
    /\ UNCHANGED <<feedClosed, procVars, storeVars, httpVars>>

\* the channel is closed and drained: the loop ends, log.Fatalln
SupClosed ==
    /\ proc = "run" /\ supPc = "recv"
    /\ feed = <<>> /\ feedClosed
    /\ Exit("feed")

\* InspectContainer returns; on success name, confStore.Get(name), hostConfig
\* and the call of RemoveContainer follow
SupInspectReturns ==
    /\ proc = "run" /\ supPc = "inspect"
    /\ \E ok \in BOOLEAN :
         IF ~ok /\ InspectErrContinues
         THEN SupEnds("dropped", Answered(calls, "err", ""))
         ELSE \E c \in IF ok THEN InspectAnswers(calls[1].a) ELSE {NoInspect} :
                LET log == Answered(calls, IF ok THEN "ok" ELSE "err",
                                    [Name |-> c.Name, HostConfig |-> c.HostConfig])
                    name == IF c.Name = <<>> THEN <<>> ELSE SupName(c)
                    r == StoreGet(name)
                    got == Append(log, Call("get", name, "", IF r.ok THEN "ok" ELSE "err", r.conf))
                IN  IF ~r.ok /\ GetMissContinues
                    THEN SupEnds("unsupervised", got)
                    ELSE SupCallsRemove(c, r.conf, got)
    /\ UNCHANGED <<procVars, storeVars, feedVars, httpVars>>

\* RemoveContainer returns; the call of CreateContainer follows
SupRemoveReturns ==
    /\ proc = "run" /\ supPc = "remove"
    /\ \E ok \in BOOLEAN :
         LET log == Answered(calls, IF ok THEN "ok" ELSE "err", "") IN
         IF ~ok /\ RemoveErrContinues
         THEN SupEnds("remove-failed", log)
         ELSE SupCallsCreate(container, conf, log)
    /\ UNCHANGED <<procVars, storeVars, feedVars, httpVars>>

\* CreateContainer returns; on success the call of StartContainer follows
SupCreateReturns ==
    /\ proc = "run" /\ supPc = "create"
    /\ \E ok \in BOOLEAN :
         IF ~ok /\ CreateErrContinues
         THEN SupEnds("aborted", Answered(calls, "err", ""))
         ELSE \E id \in IF ok THEN IdStrs ELSE {<<>>} :
                SupCallsStart(container, conf, id,
                              Answered(calls, IF ok THEN "ok" ELSE "err", id))
    /\ UNCHANGED <<procVars, storeVars, feedVars, httpVars>>

\* (mutant) a failed StartContainer is logged with log.Fatalln
SupStartReturnsOrDies ==
    /\ proc = "run" /\ supPc = "start"
    /\ \E ok \in BOOLEAN :
         IF ok
         THEN /\ SupEnds("recreated", Answered(calls, "ok", ""))
              /\ UNCHANGED <<procVars, storeVars, feedVars, httpVars>>
         ELSE Exit("start")

\* (mutant) after a recreation the new instance's document is registered again
SupStartReturnsAndAdds ==
    /\ proc = "run" /\ supPc = "start"
    /\ \E ok \in BOOLEAN :
         IF ok
         THEN /\ SupEnds("recreated", Answered(calls, "ok", ""))
              /\ StoreAdd(SupName(container), container.Config, TRUE)
         ELSE /\ SupEnds("start-failed", Answered(calls, "err", ""))
              /\ UNCHANGED storeVars
    /\ UNCHANGED <<procVars, feedVars, httpVars>>

\* StartContainer returns: the end of the loop body
SupStartReturns ==
    /\ proc = "run" /\ supPc = "start"
    /\ \E ok \in BOOLEAN :
         IF ok
         THEN SupEnds("recreated", Answered(calls, "ok", ""))
         ELSE SupEnds("start-failed", Answered(calls, "err", ""))
    /\ UNCHANGED <<procVars, storeVars, feedVars, httpVars>>

\* the steps of monitorEvents that process an event
SupStep == SupRecv \/ SupInspectReturns \/ SupRemoveReturns \/ SupCreateReturns \/ SupStartReturns

Supervisor == SupStep \/ SupClosed

\* ------------------------------------------------------------ HTTP handler
\* the "id" form values and URL paths clients send
ReqIds == {<<Slash>>, <<"a">>, <<Slash, "b", Slash>>, <<"1">>}
ReqPaths == {<<Slash, "a">>, <<Slash, "b", Slash>>, <<Slash, "1">>}
Methods == {"GET", "POST", "DELETE"}

\* the handlers whose exchanges with their clients are recorded in hReq, hResp
Watched == {1}

\* handler h goes on with the request: nothing is written yet
HGo(h, pc, arg, req, snap) ==
    /\ hPc' = [hPc EXCEPT ![h] = pc]
    /\ hArg' = [hArg EXCEPT ![h] = arg]
    /\ hReq' = IF h \in Watched THEN [hReq EXCEPT ![h] = req] ELSE hReq
    /\ hResp' = [hResp EXCEPT ![h] = NoResp]
    /\ hSnap' = [hSnap EXCEPT ![h] = snap]

\* handler h writes its response and returns
HReply(h, req, code, body) ==
    /\ hPc' = [hPc EXCEPT ![h] = "idle"]
    /\ hArg' = [hArg EXCEPT ![h] = <<>>]
    /\ hReq' = IF h \in Watched THEN [hReq EXCEPT ![h] = req] ELSE hReq
    /\ hResp' = IF h \in Watched THEN [hResp EXCEPT ![h] = [code |-> code, body |-> body]]
                                ELSE hResp
    /\ hSnap' = [hSnap EXCEPT ![h] = EmptyMap]

\* name := strings.Trim(r.Form.Get("id"), "/")
PostName(id) == Trim(id, Slash)

\* (mutant) the Registry is not asked before the container is inspected
AlreadyRegisteredSkipped(name) == FALSE

\* if _, ok := confStore.Get(name); ok { 303 See Other }
AlreadyRegistered(name) == StoreGet(name).ok

\* the key a POST stores under: strings.Trim(container.Name, "/")
AddKey(c) == Trim(c.Name, Slash)

\* (mutant) the names are listed from the store's own map, not from the copy
ListBodyLive(snap) == DOMAIN confStore

\* for k, _ := range confStore.Copy() { list = append(list, k) }
ListBody(snap) == DOMAIN snap

\* (mutant) the untrimmed URL path is removed
DeleteKeyUntrimmed(path) == <<Slash>> \o path

\* confStore.Remove(path)
DeleteKey(path) == path

\* a request for "/": GET copies the mapping to list its names; POST checks
\* the identifier and the registry and calls InspectContainer(name); else 405
RootRequest(h, method, id) ==
    /\ proc = "run" /\ hPc[h] = "idle"
    /\ LET name == IF method = "POST" THEN PostName(id) ELSE <<>>
           req == [method |-> method, path |-> <<>>, name |-> name]
       IN  CASE method = "GET" -> HGo(h, "list", <<>>, req, StoreCopy)
             [] method = "POST" ->
                  IF name = <<>> THEN HReply(h, req, 400, {})
                  ELSE IF AlreadyRegistered(name) THEN HReply(h, req, 303, {})
                  ELSE HGo(h, "inspect", name, req, EmptyMap)
             [] OTHER -> HReply(h, req, 405, {})
    /\ UNCHANGED <<procVars, storeVars, feedVars, supVars>>

\* the names of the copy are written as the response to GET /
ListReturns(h) ==
    /\ proc = "run" /\ hPc[h] = "list"
    /\ HReply(h, hReq[h], 200, ListBody(hSnap[h]))
    /\ UNCHANGED <<procVars, storeVars, feedVars, supVars>>

\* InspectContainer returns: 400 on an error, else confStore.Add(...) and 201
PostInspectReturns(h) ==
    /\ proc = "run" /\ hPc[h] = "inspect"
    /\ \E ok \in BOOLEAN :
         /\ ok => InspectAnswers(hArg[h]) # {}
         /\ IF ok
            THEN /\ \E c \in InspectAnswers(hArg[h]), saveOk \in BOOLEAN :
                      StoreAdd(AddKey(c), c.Config, saveOk)
                 /\ HReply(h, hReq[h], 201, {})
            ELSE /\ UNCHANGED storeVars
                 /\ HReply(h, hReq[h], 400, {})
    /\ UNCHANGED <<procVars, feedVars, supVars>>

\* a request for "/<path>": 404 unless confStore.Get(path) finds it; GET
\* shows the document, DELETE goes on to remove, else 405
PathRequest(h, method, urlPath) ==
    /\ proc = "run" /\ hPc[h] = "idle"
    /\ LET path == Trim(urlPath, Slash)
           req == [method |-> method, path |-> path, name |-> <<>>]
           got == StoreGet(path)
       IN  /\ path # <<>>
           /\ CASE ~got.ok -> HReply(h, req, 404, {})
                [] got.ok /\ method = "GET" -> HReply(h, req, 200, {got.conf})
                [] got.ok /\ method = "DELETE" -> HGo(h, "remove", path, req, EmptyMap)
                [] OTHER -> HReply(h, req, 405, {})
    /\ UNCHANGED <<procVars, storeVars, feedVars, supVars>>

\* confStore.Remove(path); the handler returns without writing: 200
DeleteRemove(h) ==
    /\ proc = "run" /\ hPc[h] = "remove"
    /\ \E delOk \in BOOLEAN : StoreRemove(DeleteKey(hArg[h]), delOk)
    /\ HReply(h, hReq[h], 200, {})
    /\ UNCHANGED <<procVars, feedVars, supVars>>

\* the steps of handler h
Serve(h) ==
    \/ \E m \in Methods, id \in ReqIds : RootRequest(h, m, id)
    \/ ListReturns(h)
    \/ PostInspectReturns(h)
    \/ \E m \in Methods, p \in ReqPaths : PathRequest(h, m, p)
    \/ DeleteRemove(h)

\* the steps of handler h when its clients only register and unregister
Register(h) == (\E id \in ReqIds : RootRequest(h, "POST", id)) \/ PostInspectReturns(h)
Unregister(h) == (\E p \in ReqPaths : PathRequest(h, "DELETE", p)) \/ DeleteRemove(h)

Http == \E h \in Handlers : Serve(h)

Engine == (\E e \in Events : EngEvent(e)) \/ FeedClose

\* ------------------------------------------------------------------- spec
Init ==
    /\ proc = "connect" /\ fatalBy = ""
    /\ dirExists \in BOOLEAN
    /\ disk \in (IF dirExists THEN InitDisks ELSE {EmptyMap})
    /\ persister = FALSE
    /\ confStore = EmptyMap /\ lastOp = EmptyMap /\ persistLog = NoWarning
    /\ feed = <<>> /\ feedClosed = FALSE
    /\ supPc = "recv" /\ event = NoEvent /\ container = NoInspect
    /\ conf = NoDoc /\ newContainer = <<>> /\ calls = <<>> /\ outcome = ""
    /\ hPc = [h \in Handlers |-> "idle"]
    /\ hArg = [h \in Handlers |-> <<>>]
    /\ hReq = [h \in Handlers |-> NoReq]
    /\ hResp = [h \in Handlers |-> NoResp]
    /\ hSnap = [h \in Handlers |-> EmptyMap]

\* the process started without a persist directory
MemInit == Init /\ ~dirExists

\* monitorEvents, main, the engine and one client that registers and
\* unregisters, one request at a time
Next == Main \/ Engine \/ Supervisor \/ Register(NumHandlers) \/ Unregister(NumHandlers)

Spec == MemInit /\ [][Next]_vars

\* monitorEvents, main and the engine, while no request is served
SupNext == Main \/ Engine \/ Supervisor

SupSpec == Init /\ [][SupNext]_vars

\* SupSpec with bursts of events
BurstNext == SupNext \/ \E e \in Events : EngBacklog(e)

BurstSpec == Init /\ [][BurstNext]_vars

\* SupSpec where monitorEvents is scheduled and every engine call returns
FairSupSpec == SupSpec /\ WF_vars(Supervisor)

\* the request handlers and main, while the engine sends no event
RegNext == Main \/ Http

RegSpec == Init /\ [][RegNext]_vars

\* ----------------------------------------------------------------- claims
\* the calls of the log as the engine sees them: operation and arguments
Issued(k) == <<calls[k].op, calls[k].a, calls[k].b>>
\* the iteration for `event` is over
Finished == supPc = "recv" /\ outcome # ""
\* the log holds a call of `op`
Has(op) == \E k \in 1..Len(calls) : calls[k].op = op
\* the engine calls that change the engine
Changing == {"remove", "create", "start"}

\* C1: a die event whose inspect succeeds, whose name is registered and whose
\* engine calls all succeed makes monitorEvents issue exactly remove(dead id),
\* create(name, stored document), start(new id, host configuration), in that
\* order and once each, and nothing else before the next event is received.
C1_RecreationCalls ==
    (/\ Finished /\ event.Status = "die"
     /\ \A k \in 1..Len(calls) : calls[k].res = "ok"
     /\ Len(calls) >= 2)
    => /\ Len(calls) = 5
       /\ Issued(1) = <<"inspect", event.ID, "">>
       /\ calls[2].op = "get"
       /\ Issued(3) = <<"remove", event.ID, "">>
       /\ Issued(4) = <<"create", SubSeq(calls[1].ret.Name, 2, Len(calls[1].ret.Name)),
                        calls[2].ret>>
       /\ Issued(5) = <<"start", calls[4].ret, calls[1].ret.HostConfig>>

C1_Witness ==
    /\ Finished /\ outcome = "recreated"
    /\ Len(calls) = 5 /\ \A k \in 1..5 : calls[k].res = "ok"
    /\ calls[4].ret # event.ID

\* C2: when RemoveContainer fails for a die event of a supervised container,
\* the event is abandoned: no create and no start is issued for it.
C2_RemoveFailureAbandons ==
    \A k \in 1..Len(calls) :
        (calls[k].op = "remove" /\ calls[k].res = "err") => k = Len(calls) /\ supPc = "recv"

\* C3: when CreateContainer fails, no start is issued for that event, the
\* event is dropped and monitorEvents is ready for the next event.
C3_CreateFailureDrops ==
    \A k \in 1..Len(calls) :
        (calls[k].op = "create" /\ calls[k].res = "err")
            => /\ k = Len(calls) /\ ~Has("start")
               /\ supPc = "recv" /\ outcome = "aborted" /\ proc = "run"

C3_Witness ==
    /\ outcome = "aborted" /\ Len(calls) = 4
    /\ calls[3].res = "ok" /\ calls[4].op = "create" /\ calls[4].res = "err"

\* C4: when InspectContainer fails for the instance of a die event, no other
\* engine call and no Registry lookup is made for that event, and
\* monitorEvents is ready for the next event.
C4_InspectFailureDrops ==
    (Len(calls) >= 1 /\ calls[1].res = "err")
        => /\ Len(calls) = 1 /\ calls[1].op = "inspect"
           /\ supPc = "recv" /\ outcome = "dropped" /\ proc = "run"

C4_Witness == outcome = "dropped" /\ event.Status = "die" /\ Len(calls) = 1 /\ calls[1].res = "err"

\* C5: a die event whose inspected name has no entry in the Registry when it
\* is looked up causes no remove, no create and no start.
C5_UnsupervisedLeftDead ==
    \A k \in 1..Len(calls) :
        (calls[k].op = "get" /\ calls[k].res = "err")
            => /\ k = Len(calls)
               /\ \A j \in 1..Len(calls) : calls[j].op \notin Changing
               /\ supPc = "recv"

C5_Witness ==
    /\ outcome = "unsupervised" /\ Len(calls) = 2
    /\ calls[1].res = "ok" /\ calls[2].op = "get" /\ calls[2].res = "err"
    /\ confStore # EmptyMap

\* C6: every create is issued under the dead instance's name (the inspected
\* name without its leading "/") with the document the Registry lookup of
\* this event returned, and every start is issued with the host configuration
\* the inspect of this event returned.
C6_RecreationArguments ==
    \A k \in 1..Len(calls) :
        /\ calls[k].op = "create"
             => /\ calls[1].op = "inspect" /\ calls[2].op = "get"
                /\ <<Slash>> \o calls[k].a = calls[1].ret.Name
                /\ calls[k].a = calls[2].a
                /\ calls[k].b = calls[2].ret /\ calls[k].b \in Docs
        /\ calls[k].op = "start"
             => /\ calls[k].b = calls[1].ret.HostConfig
                /\ calls[k].b \in HostConfigs

C6_Witness ==
    /\ supPc = "start" /\ Len(calls) = 5
    /\ container.Config # conf
    /\ calls[4].b = conf /\ calls[5].b = container.HostConfig

\* C7: an event whose status is not "die" causes no engine call and no
\* Registry lookup; monitorEvents stays ready for the next event.
C7_OnlyDieActedOn ==
    event.Status # "die" => calls = <<>> /\ supPc = "recv" /\ container = NoInspect

C7_Witness == outcome = "ignored" /\ event.Status = "start" /\ calls = <<>>

C2_Witness ==
    /\ supPc = "create" /\ Len(calls) = 4
    /\ calls[3].op = "remove" /\ calls[3].res = "err" /\ calls[4].op = "create"

\* C8 as claimed: from the subscription on, the process ends only when the
\* event feed is lost (the subscription fails, or the feed closes).
C8_StopsOnlyOnFeedLoss ==
    [][(proc \in {"subscribe", "run"} /\ proc' = "fatal")
         => fatalBy' \in {"subscribe", "feed"}]_vars

\* C8 as amended: the process ends only when the engine client cannot be
\* made, the subscription fails, the feed closes or the HTTP server returns;
\* while monitorEvents works on an event only the HTTP server's return ends
\* the process; a closed feed ends it; and every event on the feed is
\* received, unless the HTTP server's return ends the process first.
C8_StopsOnlyOnFatalCauses ==
    /\ [](proc = "fatal" => fatalBy \in {"connect", "subscribe", "feed", "http"})
    /\ [](fatalBy = "feed" => feedClosed)
    /\ [][(proc = "run" /\ supPc # "recv" /\ proc' = "fatal") => fatalBy' = "http"]_vars
    /\ (feedClosed ~> proc = "fatal")
    /\ \A e \in Events :
         InFeed(e) ~> ((~InFeed(e) /\ proc = "run") \/ fatalBy = "http")

C8_Witness == proc = "run" /\ outcome = "start-failed" /\ feed # <<>>

\* C9: once name n is in the Registry, no register request adds n again: the
\* document of n stays the same for as long as n stays registered.
C9_RegisteredNeverMutated ==
    [][\A n \in DOMAIN confStore :
          n \in DOMAIN confStore' => confStore'[n] = confStore[n]]_vars

\* C10: a step of monitorEvents leaves the Registry (and its durable records)
\* as it was, whatever the branch; while the process runs, the mapping only
\* changes in a step of a request handler.
C10_SupervisorOnlyReads ==
    [][(proc = "run" /\ proc' = "run")
         => /\ supVars' # supVars => (confStore' = confStore /\ disk' = disk)
            /\ confStore' # confStore => hPc' # hPc]_vars

C10_Witness == outcome = "recreated" /\ confStore # EmptyMap /\ hPc[NumHandlers] = "remove"

\* C11: a step of an unregister request issues no engine call and takes
\* nothing from the feed, and when it completes the name is out of the
\* Registry; a die event whose inspected name is out of the Registry when
\* monitorEvents looks it up ends as unsupervised, with no remove, no create
\* and no start.
C11_UnregisterLeavesDead ==
    [][(proc' = "run")
         => /\ \A h \in Handlers :
                 hPc'[h] # hPc[h]
                     => /\ supVars' = supVars /\ feed' = feed
                        /\ hPc[h] = "remove" => hArg[h] \notin DOMAIN confStore'
            /\ (/\ supPc = "inspect" /\ supPc' # "inspect"
                /\ calls'[1].res = "ok"
                /\ Tail(calls'[1].ret.Name) \notin DOMAIN confStore)
                   => /\ outcome' = "unsupervised" /\ supPc' = "recv"
                      /\ \A k \in 1..Len(calls') : calls'[k].op \notin Changing]_vars

C11_Witness ==
    /\ outcome = "unsupervised" /\ event.Status = "die"
    /\ calls[2].a \in DOMAIN lastOp /\ lastOp[calls[2].a] = Removed
    /\ calls[2].a \notin DOMAIN confStore

\* every name a request or the engine can bring to the Registry
Names ==
    Keys \cup {PostName(id) : id \in ReqIds} \cup {Trim(p, Slash) : p \in ReqPaths}

\* what get(n) has to return after the adds and removes made so far
Latest(n) ==
    IF n \in DOMAIN lastOp /\ lastOp[n] # Removed
    THEN [conf |-> lastOp[n], ok |-> TRUE]
    ELSE [conf |-> NoDoc, ok |-> FALSE]

\* C12: after any sequence of adds and removes, get(n) returns the document
\* of the latest add(n, d) when n was not removed since, and not-found when n
\* was never added or was removed since its latest add; a fetch request for n
\* answers with that document, or with 404.
C12_GetReturnsLatestAdd ==
    /\ [](\A n \in Names : StoreGet(n) = Latest(n))
    /\ [][\A h \in Watched :
            (/\ hPc[h] = "idle" /\ <<hReq'[h], hResp'[h]>> # <<hReq[h], hResp[h]>>
             /\ hReq'[h].method = "GET" /\ hReq'[h].path # <<>> /\ proc' = "run")
                => hResp'[h] = IF Latest(hReq'[h].path).ok
                               THEN [code |-> 200, body |-> {Latest(hReq'[h].path).conf}]
                               ELSE [code |-> 404, body |-> {}]]_vars

C12_Witness ==
    /\ \E n \in DOMAIN lastOp : lastOp[n] = Removed /\ ~StoreGet(n).ok
    /\ \E h \in Watched :
         /\ hReq[h].method = "GET" /\ hResp[h].code = 200
         /\ hReq[h].path \in DOMAIN lastOp
         /\ hResp[h].body = {lastOp[hReq[h].path]}
         /\ disk # EmptyMap /\ hReq[h].path \in DOMAIN disk
         /\ disk[hReq[h].path] # lastOp[hReq[h].path]

\* the mapping the adds and removes completed so far amount to
Completed == [n \in {x \in DOMAIN lastOp : lastOp[x] # Removed} |-> lastOp[n]]

\* C13: the copy a snapshot returns is the mapping the mutations completed
\* before it amount to, never a part of one; a mutation made after the
\* snapshot returned does not change the copy, and GET / lists the names of
\* the copy.
C13_SnapshotIsOfCompletedMutations ==
    [][(proc' = "run")
         => \A h \in Handlers :
              /\ (hPc[h] = "idle" /\ hPc'[h] = "list") => hSnap'[h] = Completed
              /\ (hPc[h] = "list" /\ hPc'[h] = "list") => hSnap'[h] = hSnap[h]
              /\ (h \in Watched /\ hPc[h] = "list" /\ hPc'[h] = "idle")
                    => hResp'[h] = [code |-> 200, body |-> DOMAIN hSnap[h]]]_vars

C13_Witness ==
    \E h \in Watched :
       /\ hPc[h] = "list" /\ hSnap[h] # EmptyMap
       /\ DOMAIN hSnap[h] # DOMAIN confStore
       /\ \E n \in DOMAIN hSnap[h] \cap DOMAIN confStore : hSnap[h][n] # confStore[n]

\* C14: when the persist directory does not exist at startup the store gets
\* no persister: whatever is loaded, added and removed, no durable record is
\* made, no operation reports a persistence failure, and get returns what it
\* returns with a backend: the document of the latest add not removed since.
C14_MemoryOnly ==
    ~dirExists
        => /\ ~persister /\ disk = EmptyMap /\ persistLog = NoWarning
           /\ \A n \in Names :
                StoreGet(n).ok = (n \in DOMAIN lastOp /\ lastOp[n] \in Docs)
           /\ \A n \in DOMAIN confStore : confStore[n] = lastOp[n]

C14_Witness ==
    /\ ~dirExists /\ proc = "run" /\ confStore # EmptyMap
    /\ \E n \in DOMAIN lastOp : lastOp[n] = Removed

\* the durable record of name m is the same before and after the step
SameRecord(m) ==
    /\ (m \in DOMAIN disk') = (m \in DOMAIN disk)
    /\ m \in DOMAIN disk => disk'[m] = disk[m]

\* C15: when saving fails during the add of a register request, the mapping
\* holds the added name with the added document, the request is answered 201
\* and the durable records of the other names are as they were; and startup
\* goes on to the subscription whatever Load returns.
C15_PersistenceFailuresTolerated ==
    [][/\ \A h \in Handlers, n \in Names :
            (/\ hPc[h] = "inspect" /\ hPc'[h] = "idle" /\ proc' = "run"
             /\ <<lastOp', persistLog'>> # <<lastOp, persistLog>>
             /\ persistLog' = <<"save", n>>)
                => /\ n \in DOMAIN confStore' /\ confStore'[n] \in Docs
                   /\ confStore'[n] = lastOp'[n]
                   /\ h \in Watched => hResp'[h].code = 201
                   /\ \A m \in Names \ {n} : SameRecord(m)
       /\ proc = "load" => (proc' = "subscribe" /\ fatalBy' = "")]_vars

C15_Witness ==
    \E n \in DOMAIN confStore, h \in Watched :
       /\ persistLog = <<"save", n>> /\ hResp[h].code = 201
       /\ n \in DOMAIN disk /\ disk[n] # confStore[n]
       /\ DOMAIN disk # {n}

\* the events sent by the engine and not processed yet, oldest first
Waiting == IF supPc = "recv" THEN feed ELSE <<event>> \o feed

\* C16: monitorEvents takes the events one at a time, oldest first: an event
\* is received only when the iteration of the event before it is over, it is
\* the one sent first of those waiting, every call in the log belongs to it,
\* and at most one engine call of monitorEvents is in progress at any time.
C16_OneEventAtATimeInOrder ==
    /\ [](/\ \A k \in 1..Len(calls) : calls[k].res = "pending" => k = Len(calls)
          /\ (supPc # "recv") = (calls # <<>> /\ calls[Len(calls)].res = "pending")
          /\ calls # <<>> => (calls[1].op = "inspect" /\ calls[1].a = event.ID))
    /\ [][(proc' = "run" /\ Len(feed') < Len(feed))
            => /\ supPc = "recv" /\ Waiting # <<>>
               /\ event' = Head(Waiting)
               /\ IF supPc' = "recv" THEN Waiting' = Tail(Waiting)
                                     ELSE Waiting' = Waiting]_vars
    /\ [][(proc' = "run" /\ Len(feed') >= Len(feed) /\ feed' # feed)
            => /\ \E e \in Events : Waiting' = Append(Waiting, e)
               /\ supVars' = supVars]_vars

C16_Witness ==
    /\ supPc = "start" /\ Len(feed) = 2
    /\ feed[1].Status = "die" /\ feed[2].Status = "die" /\ feed[1].ID # event.ID

\* the die event of the instance the finished iteration created and started
DiesAgain == [ID |-> calls[4].ret, Status |-> "die"]

\* C17: recreation is not bounded and depends on no history: after an
\* iteration monitorEvents keeps nothing but its loop position, whatever the
\* iteration did (a recreation included) it can receive the next event, every
\* die event on the feed is taken up and its iteration ends (unless the
\* process ends), and an iteration whose inspect, lookup, remove, create and
\* start all succeed ends with a new instance created and started.
C17_RecreationUnbounded ==
    /\ [](supPc = "recv" => (container = NoInspect /\ conf = NoDoc /\ newContainer = <<>>))
    /\ []((proc = "run" /\ supPc = "recv" /\ feed # <<>>) => ENABLED SupRecv)
    /\ []((/\ Finished /\ Len(calls) >= 3
           /\ \A k \in 1..Len(calls) : calls[k].res = "ok")
             => /\ outcome = "recreated"
                /\ calls[4].op = "create" /\ calls[5].op = "start"
                /\ calls[5].a = calls[4].ret)
    /\ \A e \in Events :
         (InFeed(e) /\ e.Status = "die")
            ~> ((event = e /\ Finished) \/ proc = "fatal")

C17_Witness ==
    /\ outcome = "recreated" /\ Len(calls) = 5
    /\ feed = <<DiesAgain>>
    /\ calls[4].ret # event.ID

\* C18 as claimed: whenever monitorEvents issues create(n, d), n is in the
\* Registry with document d at that moment, and whenever it issues start for
\* the new instance of n, n is in the Registry: an unregister completed before
\* that moment (with no register since) rules the call out.
C18_CreatesOnlyWhileRegistered ==
    [][/\ (supPc' = "create" /\ supPc # "create")
            => /\ calls'[4].a \in DOMAIN confStore'
               /\ confStore'[calls'[4].a] = calls'[4].b
       /\ (supPc' = "start" /\ supPc # "start")
            => calls'[4].a \in DOMAIN confStore']_vars

\* a create is pending for a name whose unregister completed after the lookup
C18_Witness ==
    /\ supPc = "create" /\ calls[2].res = "ok"
    /\ calls[4].a \in DOMAIN lastOp /\ lastOp[calls[4].a] = Removed
    /\ calls[4].a \notin DOMAIN confStore

\* C19: the key monitorEvents looks up for a dead instance is the key a
\* register request stores that container under (its reported name trimmed
\* of "/"), for every name the engine reports; the keys of the Registry are
\* such keys, and a container that is in the Registry under that key when
\* monitorEvents looks it up is found, with its document, and goes on to be
\* recreated.
C19_RegisterAndLookupKeysAgree ==
    /\ [](DOMAIN confStore \subseteq {Trim(n, Slash) : n \in EngineNames})
    /\ [][(/\ supPc = "inspect" /\ supPc' # "inspect" /\ proc' = "run"
           /\ calls'[1].res = "ok")
            => LET key == Trim(calls'[1].ret.Name, Slash) IN
               /\ calls'[1].ret.Name \in EngineNames
               /\ calls'[2].op = "get" /\ calls'[2].a = key
               /\ key \in DOMAIN confStore
                    => /\ calls'[2].res = "ok" /\ calls'[2].ret = confStore[key]
                       /\ supPc' = "remove"]_vars

C19_Witness ==
    /\ supPc = "remove" /\ Len(calls) = 3
    /\ calls[2].res = "ok" /\ calls[2].a \in DOMAIN lastOp
    /\ lastOp[calls[2].a] = calls[2].ret
    /\ calls[1].a \in IdStrs

\* handler h answers its request with `code` and returns in this step
Replies(h, code) == hPc'[h] = "idle" /\ hResp'[h] = [code |-> code, body |-> {}]

\* the step leaves the Registry, its durable records and monitorEvents alone
NothingChanges == confStore' = confStore /\ disk' = disk /\ supVars' = supVars

\* C20: a register request with an empty identifier is answered 400, one for
\* a name already present 303, one whose inspect fails 400; a fetch or an
\* unregister of a name not in the Registry is answered 404; and each of
\* these leaves the mapping, the durable records and monitorEvents (so its
\* remove, create and start calls) as they were.
C20_RejectedRequestsChangeNothing ==
    [][\A h \in Watched :
         /\ (/\ hPc[h] = "idle" /\ proc' = "run"
             /\ <<hPc'[h], hReq'[h], hResp'[h]>> # <<hPc[h], hReq[h], hResp[h]>>)
               => /\ (hReq'[h].method = "POST" /\ hReq'[h].path = <<>>)
                       => /\ hReq'[h].name = <<>> => (Replies(h, 400) /\ NothingChanges)
                          /\ hReq'[h].name \in DOMAIN confStore
                               => (Replies(h, 303) /\ NothingChanges)
                  /\ (/\ hReq'[h].method \in {"GET", "DELETE"} /\ hReq'[h].path # <<>>
                      /\ hReq'[h].path \notin DOMAIN confStore)
                       => (Replies(h, 404) /\ NothingChanges)
         /\ (/\ hPc[h] = "inspect" /\ hPc'[h] = "idle" /\ proc' = "run"
             /\ hResp'[h].code # 201)
               => (Replies(h, 400) /\ NothingChanges)]_vars

C20_Witness ==
    \E h \in Watched :
       /\ hReq[h].method = "DELETE" /\ hResp[h].code = 404
       /\ hReq[h].path \in Keys /\ hReq[h].path \notin DOMAIN confStore
       /\ confStore # EmptyMap /\ disk # EmptyMap

====
